---- MODULE Spec2Model ----
(***************************************************************************)
(* Model of the discrete five-level hysteresis backlight Manager of        *)
(* dbc-backlight-service (package backlight) with the default             *)
(* configuration of package config and one non-default threshold table.    *)
(***************************************************************************)
EXTENDS Integers, Sequences, FiniteSets, TLC

(***************************************************************************)
(* Bounds of the model.                                                    *)
(***************************************************************************)
\* samples are taken within Margin lux around every configured threshold
Margin == 1
\* number of AdjustBacklight calls observed after construction/SetCurrentLevel
MaxCalls == 4
\* closestLevel is applied to the brightness values from ProbeSpan below the
\* lowest to ProbeSpan above the highest configured brightness
ProbeSpan == 10

(***************************************************************************)
(* BrightnessLevel (iota constants).                                       *)
(***************************************************************************)
LevelVeryLow == 0
LevelLow == 1
LevelMid == 2
LevelHigh == 3
LevelVeryHigh == 4

Levels == LevelVeryLow..LevelVeryHigh

(***************************************************************************)
(* Default configuration (flag defaults of config.New).                    *)
(***************************************************************************)
VeryLowBrightness == 9350
LowBrightness == 9500
MidBrightness == 9700
HighBrightness == 9950
VeryHighBrightness == 10240

VeryLowToLowThreshold == 8
LowToMidThreshold == 18
MidToHighThreshold == 40
HighToVeryHighThreshold == 80

LowToVeryLowThreshold == 5
MidToLowThreshold == 15
HighToMidThreshold == 35
VeryHighToHighThreshold == 70

\* StateConfig
StateConfig(brightness, up, down) ==
    [Brightness |-> brightness, ThresholdUp |-> up, ThresholdDown |-> down]

\* The states table built by New from its thirteen integer parameters.
BuildStates(vlB, lB, mB, hB, vhB, vlUp, lUp, mUp, hUp, lDown, mDown, hDown, vhDown) ==
    (LevelVeryLow :> StateConfig(vlB, vlUp, 0))
    @@ (LevelLow :> StateConfig(lB, lUp, lDown))
    @@ (LevelMid :> StateConfig(mB, mUp, mDown))
    @@ (LevelHigh :> StateConfig(hB, hUp, hDown))
    @@ (LevelVeryHigh :> StateConfig(vhB, 0, vhDown))

\* a table without gaps: each thresholdDown lies above the thresholdUp of
\* the level below
DefaultStates_noGap ==
    BuildStates(VeryLowBrightness, LowBrightness, MidBrightness, HighBrightness,
                VeryHighBrightness,
                VeryLowToLowThreshold, LowToMidThreshold, MidToHighThreshold,
                HighToVeryHighThreshold,
                VeryLowToLowThreshold + 2, LowToMidThreshold + 2,
                MidToHighThreshold + 2, HighToVeryHighThreshold + 2)

\* the table service.New passes with the flag defaults
DefaultStates ==
    BuildStates(VeryLowBrightness, LowBrightness, MidBrightness, HighBrightness,
                VeryHighBrightness,
                VeryLowToLowThreshold, LowToMidThreshold, MidToHighThreshold,
                HighToVeryHighThreshold,
                LowToVeryLowThreshold, MidToLowThreshold, HighToMidThreshold,
                VeryHighToHighThreshold)

\* a table the flags can produce and no validation rejects:
\* --mid-to-high-threshold 15 --mid-to-low-threshold 40 (MID's thresholdDown
\* lies above its thresholdUp), --low-to-very-low-threshold -3 and
\* --high-to-very-high-threshold -3 (negative thresholds)
SkewedStates ==
    BuildStates(VeryLowBrightness, LowBrightness, MidBrightness, HighBrightness,
                VeryHighBrightness,
                VeryLowToLowThreshold, LowToMidThreshold, MidToLowThreshold,
                0 - 3,
                0 - 3, MidToHighThreshold, HighToMidThreshold,
                VeryHighToHighThreshold)

Configs == {DefaultStates, SkewedStates}

\* the thresholds AdjustBacklight compares a sample with (the positive ones)
ActiveThresholds ==
    {t \in UNION {{c[l].ThresholdUp, c[l].ThresholdDown} : c \in Configs, l \in Levels} :
        t > 0}

\* illuminance samples fed to AdjustBacklight: around every threshold, inside
\* the dead zones, and the extreme values of the edge-case table
Samples ==
    UNION {(t - Margin)..(t + Margin) : t \in ActiveThresholds}
    \cup {0 - 5, 0, 25, 1000}

(***************************************************************************)
(* The hardware control path (backlightPath): its textual content is       *)
(* either a decimal integer or something Atoi/ReadFile rejects.            *)
(***************************************************************************)
Readable(v) == [readable |-> TRUE, value |-> v]
Unreadable == [readable |-> FALSE, value |-> 0]

\* contents the control path may hold when the Manager is constructed
InitialFiles ==
    {Readable(v) : v \in {VeryLowBrightness, 12345}}
    \cup {Unreadable}

\* outcomes of os.WriteFile: success, failure before the file is touched,
\* failure after the truncating open
WriteOutcomes == {"ok", "open_failed", "write_failed"}

VARIABLES
    states,         \* Manager.states
    currentLevel,   \* Manager.currentLevel
    file,           \* content of Manager.backlightPath
    illuminance,    \* parameter of the last AdjustBacklight call
    previousLevel,  \* local previousLevel of the last AdjustBacklight call
    written,        \* values passed to SetBrightness by the last call
    err,            \* TRUE iff the last AdjustBacklight call returned an error
    origin,         \* "New" or "SetCurrentLevel": how startLevel was set
    startLevel,     \* currentLevel when the observed sequence of calls began
    calls,          \* AdjustBacklight calls since then
    transitions,    \* level changes since then
    hwWrites,       \* SetBrightness calls since then
    increasing,     \* the samples since then are strictly increasing
    inZone,         \* the samples since then all lie in startLevel's dead zone
    allNonPositive, \* the samples since then are all <= 0
    allLow,         \* the samples since then are all <= thresholdUp(VeryLow)
    probe,          \* brightness value handed to closestLevel
    classified,     \* <<>>, or <<l>> once closestLevel(probe) has returned l
    hysteresisThreshold,     \* Config.HysteresisThreshold
    lastPublishedBrightness, \* Service.lastPublishedBrightness
    backlightField, \* store field dashboard.backlight: <<>> or <<value>>
    cancelled,      \* the context handed to Run has been cancelled
    tickPending,    \* a tick waits in ticker.C (a channel of capacity one)
    runPc,          \* position of Service.Run
    processExited,  \* main has returned or died after Run returned
    monPc,          \* position of the monitorIlluminance goroutine
    cycle           \* what the current or last adjustment cycle has done

managerVars == <<states, currentLevel, file, illuminance, previousLevel, written,
                 err, origin, startLevel, calls, transitions, hwWrites,
                 increasing, inZone, allNonPositive, allLow>>

probeVars == <<probe, classified>>

serviceVars == <<hysteresisThreshold, lastPublishedBrightness, backlightField,
                 cancelled, tickPending, runPc, processExited, monPc, cycle>>

vars == <<managerVars, probeVars, serviceVars>>


Abs(x) == IF x < 0 THEN 0 - x ELSE x

(***************************************************************************)
(* closestLevel: scans the levels from VeryLow upwards and keeps the first *)
(* level of strictly smaller distance |brightness - value|, so that the    *)
(* lower level wins a tie.                                                 *)
(***************************************************************************)
RECURSIVE closestScanTieHigh(_, _, _, _)
closestScanTieHigh(table, value, level, best) ==
    IF level > LevelVeryHigh THEN best
    ELSE closestScanTieHigh(table, value, level + 1,
            IF Abs(table[level].Brightness - value) <= Abs(table[best].Brightness - value)
            THEN level ELSE best)

\* a tie goes to the higher level
closestLevel_tieHigh(table, value) ==
    closestScanTieHigh(table, value, LevelLow, LevelVeryLow)

RECURSIVE closestScan(_, _, _, _)
closestScan(table, value, level, best) ==
    IF level > LevelVeryHigh THEN best
    ELSE closestScan(table, value, level + 1,
            IF Abs(table[level].Brightness - value) < Abs(table[best].Brightness - value)
            THEN level ELSE best)

closestLevel(table, value) ==
    closestScan(table, value, LevelLow, LevelVeryLow)

(***************************************************************************)
(* Manager.New                                                             *)
(***************************************************************************)
\* level a freshly constructed Manager starts at
New_veryHigh(backlightFile, table) ==
    [currentLevel |-> LevelVeryHigh, states |-> table]

New(backlightFile, table) ==
    [currentLevel |-> LevelMid, states |-> table]

(***************************************************************************)
(* Manager.SetBrightness: os.WriteFile(backlightPath, Itoa(value), 0644)   *)
(***************************************************************************)
SetBrightness(content, value, outcome) ==
    CASE outcome = "ok" -> [file |-> Readable(value), err |-> FALSE]
      [] outcome = "open_failed" -> [file |-> content, err |-> TRUE]
      [] OTHER -> [file |-> Unreadable, err |-> TRUE]

(***************************************************************************)
(* Manager.AdjustBacklight: the switch on currentLevel                     *)
(***************************************************************************)
\* non-strict comparisons
NextLevel_inclusive(level, currentState, lux) ==
    CASE level = LevelVeryLow ->
            IF currentState.ThresholdUp > 0 /\ lux >= currentState.ThresholdUp
            THEN LevelLow ELSE level
      [] level = LevelVeryHigh ->
            IF currentState.ThresholdDown > 0 /\ lux <= currentState.ThresholdDown
            THEN LevelHigh ELSE level
      [] OTHER ->
            IF currentState.ThresholdUp > 0 /\ lux >= currentState.ThresholdUp
            THEN level + 1
            ELSE IF currentState.ThresholdDown > 0 /\ lux <= currentState.ThresholdDown
                 THEN level - 1 ELSE level

\* jumps straight to the extreme level
NextLevel_jump(level, currentState, lux) ==
    IF level # LevelVeryHigh /\ currentState.ThresholdUp > 0
       /\ lux > currentState.ThresholdUp
    THEN LevelVeryHigh
    ELSE IF level # LevelVeryLow /\ currentState.ThresholdDown > 0
            /\ lux < currentState.ThresholdDown
         THEN LevelVeryLow ELSE level

\* the else-if branches are missing
NextLevel_upOnly(level, currentState, lux) ==
    IF level # LevelVeryHigh /\ currentState.ThresholdUp > 0
       /\ lux > currentState.ThresholdUp
    THEN level + 1 ELSE level

\* the if branches are missing
NextLevel_downOnly(level, currentState, lux) ==
    IF level # LevelVeryLow /\ currentState.ThresholdDown > 0
       /\ lux < currentState.ThresholdDown
    THEN level - 1 ELSE level

\* the else-if branch is tested first
NextLevel_downFirst(level, currentState, lux) ==
    IF level # LevelVeryLow /\ currentState.ThresholdDown > 0
       /\ lux < currentState.ThresholdDown
    THEN level - 1
    ELSE IF level # LevelVeryHigh /\ currentState.ThresholdUp > 0
            /\ lux > currentState.ThresholdUp
         THEN level + 1 ELSE level

\* the level index wraps around at the floor and at the ceiling
NextLevel_wraps(level, currentState, lux) ==
    IF lux > 100 THEN (level + 1) % 5
    ELSE IF lux < 0 THEN (level + 4) % 5 ELSE level

NextLevel(level, currentState, lux) ==
    CASE level = LevelVeryLow ->
            IF currentState.ThresholdUp > 0 /\ lux > currentState.ThresholdUp
            THEN LevelLow ELSE level
      [] level = LevelLow ->
            IF currentState.ThresholdUp > 0 /\ lux > currentState.ThresholdUp
            THEN LevelMid
            ELSE IF currentState.ThresholdDown > 0 /\ lux < currentState.ThresholdDown
                 THEN LevelVeryLow ELSE level
      [] level = LevelMid ->
            IF currentState.ThresholdUp > 0 /\ lux > currentState.ThresholdUp
            THEN LevelHigh
            ELSE IF currentState.ThresholdDown > 0 /\ lux < currentState.ThresholdDown
                 THEN LevelLow ELSE level
      [] level = LevelHigh ->
            IF currentState.ThresholdUp > 0 /\ lux > currentState.ThresholdUp
            THEN LevelVeryHigh
            ELSE IF currentState.ThresholdDown > 0 /\ lux < currentState.ThresholdDown
                 THEN LevelMid ELSE level
      [] level = LevelVeryHigh ->
            IF currentState.ThresholdDown > 0 /\ lux < currentState.ThresholdDown
            THEN LevelHigh ELSE level
      [] OTHER -> level

\* writes the brightness on every call
BrightnessToSet_always(prevLevel, newLevel, newState) ==
    <<newState.Brightness>>

\* no write when the control path already holds the brightness
BrightnessToSet_unlessHeld(prevLevel, newLevel, newState) ==
    IF newLevel # prevLevel /\ file # Readable(newState.Brightness)
    THEN <<newState.Brightness>> ELSE <<>>

\* "Set brightness if state changed": the values handed to SetBrightness
BrightnessToSet(prevLevel, newLevel, newState) ==
    IF newLevel # prevLevel THEN <<newState.Brightness>> ELSE <<>>

\* m.currentLevel is restored when SetBrightness fails
LevelAfterAdjust_rollback(prevLevel, newLevel, failed) ==
    IF failed THEN prevLevel ELSE newLevel

\* m.currentLevel is assigned in the switch, before SetBrightness is called,
\* and keeps the new level whatever SetBrightness returns
LevelAfterAdjust(prevLevel, newLevel, failed) == newLevel

(***************************************************************************)
(* Dead zone of a level: thresholdDown <= v <= thresholdUp, where VeryLow  *)
(* has no lower and VeryHigh no upper bound.                               *)
(***************************************************************************)
InDeadZone(level, lux) ==
    /\ level = LevelVeryLow \/ states[level].ThresholdDown <= lux
    /\ level = LevelVeryHigh \/ lux <= states[level].ThresholdUp

(***************************************************************************)
(* State after construction                                                *)
(***************************************************************************)
ManagerInit(table, content) ==
    LET m == New(content, table) IN
    /\ states = m.states
    /\ currentLevel = m.currentLevel
    /\ file = content
    /\ illuminance = 0
    /\ previousLevel = m.currentLevel
    /\ written = <<>>
    /\ err = FALSE
    /\ origin = "New"
    /\ startLevel = m.currentLevel
    /\ calls = 0
    /\ transitions = 0
    /\ hwWrites = 0
    /\ increasing = TRUE
    /\ inZone = TRUE
    /\ allNonPositive = TRUE
    /\ allLow = TRUE

(***************************************************************************)
(* service.New                                                             *)
(***************************************************************************)
HysteresisThreshold == 512

\* --hysteresis-threshold values: the default, and the brightness step
\* between the two lowest levels
HysteresisThresholds == {HysteresisThreshold, LowBrightness - VeryLowBrightness}

\* no adjustment cycle has started
NoCycle ==
    [kind |-> "none", levelBefore |-> LevelMid, lastBefore |-> 0 - 1,
     reply |-> "none", lux |-> 0, hw |-> "none", readback |-> "none",
     brightness |-> 0, publish |-> "none", hset |-> FALSE, notify |-> FALSE,
     result |-> "none", steps |-> <<>>]

\* the Service as New returns it, before Run is called
ServiceNew(threshold) ==
    /\ hysteresisThreshold = threshold
    /\ lastPublishedBrightness = 0 - 1
    /\ backlightField = <<>>
    /\ cancelled = FALSE
    /\ tickPending = FALSE
    /\ runPc = "ping"
    /\ processExited = FALSE
    /\ monPc = "none"
    /\ cycle = NoCycle

\* closestLevel has not been called
ProbeIdle ==
    /\ probe = 0
    /\ classified = <<>>

Init ==
    /\ \E table \in Configs, content \in InitialFiles : ManagerInit(table, content)
    /\ ProbeIdle
    /\ ServiceNew(HysteresisThreshold)

\* Manager.SetCurrentLevel
SetCurrentLevel(level) ==
    /\ currentLevel' = level
    /\ origin' = "SetCurrentLevel"
    /\ startLevel' = level
    /\ calls' = 0
    /\ transitions' = 0
    /\ hwWrites' = 0
    /\ increasing' = TRUE
    /\ inZone' = TRUE
    /\ allNonPositive' = TRUE
    /\ allLow' = TRUE
    /\ written' = <<>>
    /\ err' = FALSE
    /\ illuminance' = 0
    /\ previousLevel' = level
    /\ UNCHANGED <<states, file, probeVars, serviceVars>>

\* Manager.AdjustBacklight(lux); outcome is what os.WriteFile does if called
AdjustBacklight(lux, outcome) ==
    /\ calls < MaxCalls
    /\ LET prev == currentLevel
           currentState == states[currentLevel]
           newLevel == NextLevel(currentLevel, currentState, lux)
           newState == states[newLevel]
           toSet == BrightnessToSet(prev, newLevel, newState)
           result == IF toSet # <<>>
                     THEN SetBrightness(file, toSet[1], outcome)
                     ELSE [file |-> file, err |-> FALSE]
       IN /\ toSet = <<>> => outcome = "ok"   \* os.WriteFile is not called
          /\ currentLevel' = LevelAfterAdjust(prev, newLevel, result.err)
          /\ previousLevel' = prev
          /\ illuminance' = lux
          /\ written' = toSet
          /\ file' = result.file
          /\ err' = result.err
          /\ calls' = calls + 1
          /\ transitions' = transitions + (IF newLevel # prev THEN 1 ELSE 0)
          /\ hwWrites' = hwWrites + Len(toSet)
          /\ increasing' = (increasing /\ (calls = 0 \/ lux > illuminance))
          /\ inZone' = (inZone /\ InDeadZone(startLevel, lux))
          /\ allNonPositive' = (allNonPositive /\ lux <= 0)
          /\ allLow' = (allLow /\ lux <= states[LevelVeryLow].ThresholdUp)
    /\ UNCHANGED <<states, origin, startLevel, probeVars, serviceVars>>

Next ==
    \/ \E level \in Levels : SetCurrentLevel(level)
    \/ \E lux \in Samples, outcome \in WriteOutcomes : AdjustBacklight(lux, outcome)

Spec == Init /\ [][Next]_vars

(***************************************************************************)
(* closestLevel applied to one brightness value                            *)
(***************************************************************************)
\* brightness values handed to closestLevel
Probes ==
    ((VeryLowBrightness - ProbeSpan)..(VeryHighBrightness + ProbeSpan))
    \cup {0, 99999}

ClosestInit ==
    /\ ManagerInit(DefaultStates, Readable(MidBrightness))
    /\ probe \in Probes
    /\ classified = <<>>
    /\ ServiceNew(HysteresisThreshold)

Classify ==
    /\ classified = <<>>
    /\ classified' = <<closestLevel(states, probe)>>
    /\ UNCHANGED <<managerVars, probe, serviceVars>>

ClosestNext == Classify

ClosestSpec == ClosestInit /\ [][ClosestNext]_vars

(***************************************************************************)
(* redis.Client                                                            *)
(***************************************************************************)
\* int(floatValue): the fraction is dropped toward zero; the field value is
\* given in tenths (250 stands for the text "25.0")
TruncateFloor(tenths) == tenths \div 10

TruncateTowardZero(tenths) ==
    IF tenths >= 0 THEN tenths \div 10 ELSE 0 - ((0 - tenths) \div 10)

\* the int of the GOARCH=arm build has 32 bits
MaxInt == 2147483647
MinInt == 0 - MaxInt - 1

\* int(floatValue): the integer part when it fits the int; otherwise the
\* conversion succeeds with an implementation-dependent value
IntOfFloat(tenths, fits) ==
    IF fits THEN {TruncateTowardZero(tenths)} ELSE {MinInt, MaxInt}

\* a decimal number whose integer part fits the int
NumberReplies(tenthsSet) ==
    UNION {{[kind |-> "number", tenths |-> t, int |-> i] : i \in IntOfFloat(t, TRUE)}
           : t \in tenthsSet}

\* a decimal number at or beyond 2^31 in magnitude, such as "3000000000.0"
HugeReplies ==
    {[kind |-> "huge", tenths |-> 0, int |-> i] : i \in IntOfFloat(0, FALSE)}

\* replies to HGET dashboard brightness: a failure of the call (store
\* unavailable, timeout, cancelled context), redis.Nil, a text ParseFloat
\* rejects, or a decimal number
LuxTenths == {0 - 105, 250, 10000}

Replies ==
    {[kind |-> k, tenths |-> 0, int |-> 0] : k \in {"error", "nil", "garbage"}}
    \cup NumberReplies(LuxTenths)

\* a field that does not parse is read as 0
GetIlluminanceValue_lenient(reply) ==
    CASE reply.kind = "error" -> [value |-> 0, err |-> TRUE]
      [] reply.kind \in {"number", "huge"} -> [value |-> reply.int, err |-> FALSE]
      [] OTHER -> [value |-> 0, err |-> FALSE]

\* redis.Nil is returned as an error
GetIlluminanceValue_nilIsError(reply) ==
    CASE reply.kind \in {"error", "nil", "garbage"} -> [value |-> 0, err |-> TRUE]
      [] OTHER -> [value |-> reply.int, err |-> FALSE]

\* Client.GetIlluminanceValue
GetIlluminanceValue(reply) ==
    CASE reply.kind = "error" -> [value |-> 0, err |-> TRUE]
      [] reply.kind = "nil" -> [value |-> 0, err |-> FALSE]
      [] reply.kind = "garbage" -> [value |-> 0, err |-> TRUE]
      [] OTHER -> [value |-> reply.int, err |-> FALSE]

(***************************************************************************)
(* GetIlluminanceValue applied to one field value                          *)
(***************************************************************************)
TenthsSpan == 60

\* field values handed to the conversion: -6.0 .. 6.0 in steps of 0.1,
\* the values of the documented test table, and numbers beyond the int
FieldProbes ==
    NumberReplies(((0 - TenthsSpan)..TenthsSpan) \cup {427, 1000, 0 - 105})
    \cup HugeReplies

ConvertInit ==
    /\ ManagerInit(DefaultStates, Readable(MidBrightness))
    /\ probe \in FieldProbes
    /\ classified = <<>>
    /\ ServiceNew(HysteresisThreshold)

Convert ==
    /\ classified = <<>>
    /\ classified' = <<GetIlluminanceValue(probe)>>
    /\ UNCHANGED <<managerVars, probe, serviceVars>>

ConvertNext == Convert

ConvertSpec == ConvertInit /\ [][ConvertNext]_vars

\* what the store did with the pipeline HSET + PUBLISH: both commands
\* applied and acknowledged, nothing applied, only one of the two applied,
\* both applied but the reply lost
PublishOutcomes == {"ok", "failed", "hset_only", "publish_only", "reply_lost"}

\* Client.SetBacklightValue
SetBacklightValue(field, value, outcome) ==
    [field |-> IF outcome \in {"ok", "hset_only", "reply_lost"} THEN <<value>> ELSE field,
     hset |-> outcome \in {"ok", "hset_only", "reply_lost"},
     notify |-> outcome \in {"ok", "publish_only", "reply_lost"},
     err |-> outcome # "ok"]

(***************************************************************************)
(* Manager.GetCurrentBrightness                                            *)
(***************************************************************************)
GetCurrentBrightness(content) ==
    [value |-> IF content.readable THEN content.value ELSE 0,
     err |-> ~content.readable]

(***************************************************************************)
(* Service.adjustBacklightBasedOnIlluminance                               *)
(***************************************************************************)
\* the error of GetIlluminanceValue is returned
AfterIlluminance(failed) ==
    IF failed THEN [result |-> "error", next |-> "select"]
    ELSE [result |-> "running", next |-> "adjust"]

\* the error of AdjustBacklight is dropped
AfterAdjust_continues(failed) ==
    [result |-> "running", next |-> "readback"]

\* the error of AdjustBacklight is returned
AfterAdjust(failed) ==
    IF failed THEN [result |-> "error", next |-> "select"]
    ELSE [result |-> "running", next |-> "readback"]

\* a failed readback is returned as an error
AfterReadback_fatal(failed) ==
    IF failed THEN [result |-> "error", next |-> "select"]
    ELSE [result |-> "running", next |-> "gate"]

\* a failed readback is logged and the cycle returns nil
AfterReadback(failed) ==
    IF failed THEN [result |-> "nil", next |-> "select"]
    ELSE [result |-> "running", next |-> "gate"]

\* strict comparison
ShouldPublish_strict(brightness, last, threshold) ==
    Abs(brightness - last) > threshold \/ last = 0 - 1

\* the never-published sentinel is not tested
ShouldPublish_noSentinel(brightness, last, threshold) ==
    Abs(brightness - last) >= threshold

\* brightnessChange >= HysteresisThreshold || lastPublishedBrightness == -1
ShouldPublish(brightness, last, threshold) ==
    Abs(brightness - last) >= threshold \/ last = 0 - 1

\* the configured brightness of the level is published
ValueToPublish_configured(readbackValue, configured) == configured

\* s.Redis.SetBacklightValue(ctx, brightness): the value read back
ValueToPublish(readbackValue, configured) == readbackValue

\* lastPublishedBrightness is set whether or not the publish failed
AfterPublish_alwaysUpdates(last, brightness, failed) ==
    [last |-> brightness, result |-> "nil"]

\* a failed publish is returned as an error
AfterPublish_fatal(last, brightness, failed) ==
    [last |-> IF failed THEN last ELSE brightness,
     result |-> IF failed THEN "error" ELSE "nil"]

\* a failed publish is logged; lastPublishedBrightness is set on success
AfterPublish(last, brightness, failed) ==
    [last |-> IF failed THEN last ELSE brightness, result |-> "nil"]

(***************************************************************************)
(* Service.monitorIlluminance                                              *)
(***************************************************************************)
\* the loop returns when a cycle reported an error
LoopAfterCycle_stopsOnError(result) ==
    IF result = "error" THEN "exited" ELSE "select"

\* the result of a cycle is logged and the loop goes back to its select
LoopAfterCycle(result) == "select"

PcAfter(step) ==
    IF step.next = "select" THEN LoopAfterCycle(step.result) ELSE step.next

BeginCycle(kind) ==
    [NoCycle EXCEPT !.kind = kind, !.levelBefore = currentLevel,
                    !.lastBefore = lastPublishedBrightness, !.result = "running"]

\* the goroutine is scheduled as long as the process lives
Alive == ~processExited

\* ticker := time.NewTicker(...), then the initial cycle begins
StartInitial ==
    /\ Alive
    /\ monPc = "initial"
    /\ monPc' = "read"
    /\ cycle' = BeginCycle("initial")
    /\ UNCHANGED <<managerVars, probeVars, hysteresisThreshold,
                   lastPublishedBrightness, backlightField, cancelled,
                   tickPending, runPc, processExited>>

\* the loop has no case for ctx.Done()
SelectDone_ignoresDone ==
    /\ Alive
    /\ monPc = "select"
    /\ cancelled
    /\ monPc' = "select"
    /\ UNCHANGED <<managerVars, probeVars, hysteresisThreshold,
                   lastPublishedBrightness, backlightField, cancelled,
                   tickPending, runPc, processExited, cycle>>

\* case <-ctx.Done(): return
SelectDone ==
    /\ Alive
    /\ monPc = "select"
    /\ cancelled
    /\ monPc' = "exited"
    /\ UNCHANGED <<managerVars, probeVars, hysteresisThreshold,
                   lastPublishedBrightness, backlightField, cancelled,
                   tickPending, runPc, processExited, cycle>>

\* the loop begins a periodic cycle without receiving from ticker.C
SelectTick_busyLoop ==
    /\ Alive
    /\ monPc = "select"
    /\ monPc' = "read"
    /\ cycle' = BeginCycle("periodic")
    /\ UNCHANGED <<managerVars, probeVars, hysteresisThreshold,
                   lastPublishedBrightness, backlightField, cancelled,
                   tickPending, runPc, processExited>>

\* case <-ticker.C: a periodic cycle begins
SelectTick ==
    /\ Alive
    /\ monPc = "select"
    /\ tickPending
    /\ tickPending' = FALSE
    /\ monPc' = "read"
    /\ cycle' = BeginCycle("periodic")
    /\ UNCHANGED <<managerVars, probeVars, hysteresisThreshold,
                   lastPublishedBrightness, backlightField, cancelled,
                   runPc, processExited>>

\* illuminance, err := s.Redis.GetIlluminanceValue(ctx)
CycleRead(reply) ==
    /\ Alive
    /\ monPc = "read"
    /\ cancelled => reply.kind = "error"
    /\ LET got == GetIlluminanceValue(reply)
           step == AfterIlluminance(got.err)
       IN /\ cycle' = [cycle EXCEPT !.reply = reply.kind, !.lux = got.value,
                                    !.steps = Append(@, "read"),
                                    !.result = step.result]
          /\ monPc' = PcAfter(step)
    /\ UNCHANGED <<managerVars, probeVars, hysteresisThreshold,
                   lastPublishedBrightness, backlightField, cancelled,
                   tickPending, runPc, processExited>>

\* s.Backlight.AdjustBacklight(illuminance)
CycleAdjust(outcome) ==
    /\ Alive
    /\ monPc = "adjust"
    /\ LET prev == currentLevel
           currentState == states[currentLevel]
           newLevel == NextLevel(currentLevel, currentState, cycle.lux)
           newState == states[newLevel]
           toSet == BrightnessToSet(prev, newLevel, newState)
           result == IF toSet # <<>>
                     THEN SetBrightness(file, toSet[1], outcome)
                     ELSE [file |-> file, err |-> FALSE]
           step == AfterAdjust(result.err)
       IN /\ toSet = <<>> => outcome = "ok"   \* os.WriteFile is not called
          /\ currentLevel' = LevelAfterAdjust(prev, newLevel, result.err)
          /\ previousLevel' = prev
          /\ illuminance' = cycle.lux
          /\ written' = toSet
          /\ file' = result.file
          /\ err' = result.err
          /\ cycle' = [cycle EXCEPT !.hw = IF toSet = <<>> THEN "nowrite" ELSE outcome,
                                    !.steps = IF toSet = <<>> THEN Append(@, "transition")
                                              ELSE @ \o <<"transition", "write">>,
                                    !.result = step.result]
          /\ monPc' = PcAfter(step)
    /\ UNCHANGED <<states, origin, startLevel, calls, transitions, hwWrites,
                   increasing, inZone, allNonPositive, allLow, probeVars,
                   hysteresisThreshold, lastPublishedBrightness, backlightField,
                   cancelled, tickPending, runPc, processExited>>

\* brightness, err := s.Backlight.GetCurrentBrightness()
CycleReadback ==
    /\ Alive
    /\ monPc = "readback"
    /\ LET got == GetCurrentBrightness(file)
           step == AfterReadback(got.err)
       IN /\ cycle' = [cycle EXCEPT !.readback = IF got.err THEN "err" ELSE "ok",
                                    !.steps = Append(@, "readback"),
                                    !.brightness = got.value,
                                    !.result = step.result]
          /\ monPc' = PcAfter(step)
    /\ UNCHANGED <<managerVars, probeVars, hysteresisThreshold,
                   lastPublishedBrightness, backlightField, cancelled,
                   tickPending, runPc, processExited>>

\* the hysteresis gate and s.Redis.SetBacklightValue(ctx, brightness)
CycleGate(outcome) ==
    /\ Alive
    /\ monPc = "gate"
    /\ cancelled => outcome = "failed"
    /\ IF ShouldPublish(cycle.brightness, lastPublishedBrightness, hysteresisThreshold)
       THEN LET value == ValueToPublish(cycle.brightness, states[currentLevel].Brightness)
                set == SetBacklightValue(backlightField, value, outcome)
                after == AfterPublish(lastPublishedBrightness, cycle.brightness, set.err)
            IN /\ backlightField' = set.field
               /\ lastPublishedBrightness' = after.last
               /\ cycle' = [cycle EXCEPT !.publish = IF set.err THEN "err" ELSE "ok",
                                         !.steps = @ \o <<"gate", "publish">>,
                                         !.hset = set.hset, !.notify = set.notify,
                                         !.result = after.result]
               /\ monPc' = LoopAfterCycle(after.result)
       ELSE /\ outcome = "failed"   \* SetBacklightValue is not called
            /\ cycle' = [cycle EXCEPT !.publish = "skipped", !.result = "nil",
                                      !.steps = Append(@, "gate")]
            /\ monPc' = LoopAfterCycle("nil")
            /\ UNCHANGED <<backlightField, lastPublishedBrightness>>
    /\ UNCHANGED <<managerVars, probeVars, hysteresisThreshold, cancelled,
                   tickPending, runPc, processExited>>

(***************************************************************************)
(* Service.Run                                                             *)
(***************************************************************************)
\* the goroutine is started whatever Ping returned
AfterPing_ignored(ok) ==
    [run |-> IF ok THEN "waiting" ELSE "failed", mon |-> "initial"]

\* a failed Ping returns the error; otherwise go s.monitorIlluminance(ctx)
AfterPing(ok) ==
    IF ok THEN [run |-> "waiting", mon |-> "initial"]
    ELSE [run |-> "failed", mon |-> "none"]

\* s.Redis.Ping(ctx)
RunPing(ok) ==
    /\ Alive
    /\ runPc = "ping"
    /\ cancelled => ~ok
    /\ runPc' = AfterPing(ok).run
    /\ monPc' = AfterPing(ok).mon
    /\ UNCHANGED <<managerVars, probeVars, hysteresisThreshold,
                   lastPublishedBrightness, backlightField, cancelled,
                   tickPending, processExited, cycle>>

\* <-ctx.Done(); return nil (the deferred s.Redis.Close() runs)
RunDone ==
    /\ Alive
    /\ runPc = "waiting"
    /\ cancelled
    /\ runPc' = "returned"
    /\ UNCHANGED <<managerVars, probeVars, hysteresisThreshold,
                   lastPublishedBrightness, backlightField, cancelled,
                   tickPending, processExited, monPc, cycle>>

\* the connection to the store is closed once Run has returned
Closed == runPc \in {"failed", "returned"}

(***************************************************************************)
(* main, the ticker and the signal handler                                 *)
(***************************************************************************)
\* main returns (or log.Fatalf exits) after Run returned: the process ends
ProcessExit ==
    /\ Alive
    /\ Closed
    /\ processExited' = TRUE
    /\ UNCHANGED <<managerVars, probeVars, hysteresisThreshold,
                   lastPublishedBrightness, backlightField, cancelled,
                   tickPending, runPc, monPc, cycle>>

\* SIGINT/SIGTERM: cancel()
Cancel ==
    /\ Alive
    /\ ~cancelled
    /\ cancelled' = TRUE
    /\ UNCHANGED <<managerVars, probeVars, hysteresisThreshold,
                   lastPublishedBrightness, backlightField, tickPending, runPc,
                   processExited, monPc, cycle>>

\* every tick begins a cycle of its own, whatever the loop is doing
Tick_spawnsCycle ==
    /\ Alive
    /\ monPc \notin {"none", "initial", "exited"}
    /\ ~tickPending
    /\ monPc' = "read"
    /\ cycle' = BeginCycle("periodic")
    /\ UNCHANGED <<managerVars, probeVars, hysteresisThreshold,
                   lastPublishedBrightness, backlightField, cancelled,
                   tickPending, runPc, processExited>>

\* the running ticker sends on ticker.C; a tick is dropped while one waits
Tick ==
    /\ Alive
    /\ monPc \notin {"none", "initial", "exited"}
    /\ ~tickPending
    /\ tickPending' = TRUE
    /\ UNCHANGED <<managerVars, probeVars, hysteresisThreshold,
                   lastPublishedBrightness, backlightField, cancelled, runPc,
                   processExited, monPc, cycle>>

\* contents of the control path when the service starts
ServiceFiles == {Readable(0), Unreadable}

ServiceInit ==
    /\ \E content \in ServiceFiles : ManagerInit(DefaultStates, content)
    /\ ProbeIdle
    /\ \E threshold \in HysteresisThresholds : ServiceNew(threshold)

MonitorStep ==
    \/ StartInitial
    \/ SelectDone
    \/ SelectTick
    \/ \E reply \in Replies : CycleRead(reply)
    \/ \E outcome \in WriteOutcomes : CycleAdjust(outcome)
    \/ CycleReadback
    \/ \E outcome \in PublishOutcomes : CycleGate(outcome)

ServiceNext ==
    \/ \E ok \in BOOLEAN : RunPing(ok)
    \/ RunDone
    \/ ProcessExit
    \/ Cancel
    \/ Tick
    \/ MonitorStep

ServiceSpec == ServiceInit /\ [][ServiceNext]_vars

\* the goroutine is scheduled and the ticker keeps firing
ServiceFairSpec ==
    ServiceSpec /\ WF_vars(MonitorStep) /\ WF_vars(Tick)

TypeOK ==
    /\ states \in Configs
    /\ currentLevel \in Levels
    /\ previousLevel \in Levels
    /\ startLevel \in Levels
    /\ calls \in 0..MaxCalls
    /\ transitions \in 0..calls
    /\ hwWrites \in 0..calls


(***************************************************************************)
(* Properties of AdjustBacklight                                           *)
(***************************************************************************)
Called == calls > 0

UpActive(level) == level # LevelVeryHigh /\ states[level].ThresholdUp > 0
DownActive(level) == level # LevelVeryLow /\ states[level].ThresholdDown > 0

\* C1: dead zone with strict boundaries. A call whose sample v satisfies
\* thresholdDown(L) <= v <= thresholdUp(L) for the level L it starts from
\* (no lower bound at VeryLow, no upper bound at VeryHigh) leaves
\* currentLevel at L, the boundary values included.
C1_DeadZone ==
    (Called /\ InDeadZone(previousLevel, illuminance))
        => currentLevel = previousLevel

C1_Witness ==
    /\ Called
    /\ states = DefaultStates
    /\ previousLevel = LevelMid
    /\ illuminance = states[LevelMid].ThresholdUp
    /\ currentLevel = LevelMid

C4_WriteIffChanged ==
    [][calls' = calls + 1 =>
          /\ (written' # <<>>) <=> (currentLevel' # currentLevel)
          /\ written' # <<>> => written' = <<states[currentLevel'].Brightness>>
          /\ currentLevel' = currentLevel => file' = file]_vars

C4_Witness ==
    /\ Called
    /\ previousLevel = LevelMid
    /\ currentLevel = LevelMid
    /\ illuminance = 25
    /\ written = <<>>
    /\ file = Readable(12345)
    /\ states[currentLevel].Brightness # 12345

\* C5: oscillation stability. As long as every sample fed since the start
\* lies in the dead zone of the starting level, currentLevel is still the
\* starting level and no hardware write has been issued.
C5_OscillationStable ==
    inZone => /\ currentLevel = startLevel
              /\ transitions = 0
              /\ hwWrites = 0

C5_Witness ==
    /\ inZone
    /\ states = DefaultStates
    /\ startLevel = LevelMid
    /\ calls >= 4
    /\ illuminance = 16
    /\ currentLevel = LevelMid

AllDownPositive == \A l \in Levels \ {LevelVeryLow} : states[l].ThresholdDown > 0

\* C7 (as stated): from every starting level, if every sample fed is at or
\* below VeryLow's up-threshold, the machine ends at VeryLow (default
\* thresholds, after four calls).
C7_Original ==
    (states = DefaultStates /\ allLow /\ calls >= 4)
        => currentLevel = LevelVeryLow

\* C7 (amended): when the down-thresholds of Low..VeryHigh are positive and
\* every sample fed is <= 0, the machine is at VeryLow after as many calls as
\* the rank of the starting level (at most 4) and stays there.
C7_NonPositiveToVeryLow ==
    (AllDownPositive /\ allNonPositive /\ calls >= startLevel - LevelVeryLow)
        => currentLevel = LevelVeryLow

C7_Witness ==
    /\ AllDownPositive
    /\ allNonPositive
    /\ startLevel = LevelVeryHigh
    /\ calls = 4
    /\ currentLevel = LevelVeryLow

Constructed == origin = "New" /\ calls = 0

\* C9: initial state from hardware. After construction (default values)
\* currentLevel is the configured level whose brightness is nearest to the
\* brightness held by the control path, not a fixed level.
C9_InitialStateFromHardware ==
    (Constructed /\ states = DefaultStates /\ file.readable)
        => currentLevel = closestLevel(states, file.value)

\* C10: initial state fallback. When the control path cannot be read at
\* construction, currentLevel is Mid.
C10_InitialStateFallback ==
    (Constructed /\ ~file.readable) => currentLevel = LevelMid

C10_Witness ==
    /\ Constructed
    /\ ~file.readable
    /\ currentLevel = LevelMid


(***************************************************************************)
(* Properties of closestLevel                                              *)
(***************************************************************************)
Distance(level, value) == Abs(states[level].Brightness - value)

\* C11: closestLevel returns a level of minimum absolute distance
\* |brightness(level) - value| over the five configured levels, and the
\* lower level when two levels are equidistant (9425 -> VeryLow,
\* 9426 -> Low, 0 -> VeryLow, 99999 -> VeryHigh with the default values).
C11_ClosestLevelArgmin ==
    classified # <<>> =>
        /\ \A k \in Levels :
              \/ Distance(classified[1], probe) < Distance(k, probe)
              \/ /\ Distance(classified[1], probe) = Distance(k, probe)
                 /\ classified[1] <= k
        /\ probe = 9425 => classified[1] = LevelVeryLow
        /\ probe = 9426 => classified[1] = LevelLow
        /\ probe = 0 => classified[1] = LevelVeryLow
        /\ probe = 99999 => classified[1] = LevelVeryHigh

C11_Witness ==
    /\ probe = 9425
    /\ Distance(LevelVeryLow, probe) = Distance(LevelLow, probe)
    /\ classified = <<LevelVeryLow>>


(***************************************************************************)
(* Properties of the control loop                                          *)
(***************************************************************************)
ServiceTypeOK ==
    /\ states = DefaultStates
    /\ currentLevel \in Levels
    /\ hysteresisThreshold \in HysteresisThresholds
    /\ lastPublishedBrightness \in {0 - 1, 0} \cup {DefaultStates[l].Brightness : l \in Levels}
    /\ backlightField \in {<<>>} \cup {<<b>> : b \in {0} \cup {DefaultStates[l].Brightness : l \in Levels}}
    /\ cancelled \in BOOLEAN
    /\ tickPending \in BOOLEAN
    /\ processExited \in BOOLEAN
    /\ runPc \in {"ping", "waiting", "failed", "returned"}
    /\ monPc \in {"none", "initial", "select", "read", "adjust", "readback", "gate", "exited"}
    /\ cycle.kind \in {"none", "initial", "periodic"}
    /\ cycle.result \in {"none", "running", "nil", "error"}

PublishAttempted == cycle.publish \in {"ok", "err"}

CycleEnded == cycle.result \in {"nil", "error"}

\* C12: republish gate. In a cycle whose readback succeeded and that
\* started with lastPublishedBrightness # -1, a publish is attempted if and
\* only if |actualBrightness - lastPublishedBrightness| >= HysteresisThreshold,
\* the boundary included.
C12_RepublishGate ==
    (CycleEnded /\ cycle.readback = "ok" /\ cycle.lastBefore # 0 - 1)
        => /\ cycle.publish \in {"ok", "err", "skipped"}
           /\ PublishAttempted <=>
                 Abs(cycle.brightness - cycle.lastBefore) >= hysteresisThreshold

C12_Witness ==
    /\ CycleEnded
    /\ cycle.readback = "ok"
    /\ cycle.lastBefore = LowBrightness
    /\ cycle.brightness = VeryLowBrightness
    /\ hysteresisThreshold = LowBrightness - VeryLowBrightness
    /\ cycle.publish = "ok"

\* C13: first-cycle publish. While lastPublishedBrightness is still -1,
\* every cycle with a successful readback attempts a publish, whatever the
\* readback value and the threshold, also after earlier failed publishes.
C13_SentinelPublishes ==
    (CycleEnded /\ cycle.readback = "ok" /\ cycle.lastBefore = 0 - 1)
        => PublishAttempted

C13_Witness ==
    /\ CycleEnded
    /\ cycle.kind = "periodic"
    /\ cycle.readback = "ok"
    /\ cycle.lastBefore = 0 - 1
    /\ Abs(cycle.brightness - cycle.lastBefore) < hysteresisThreshold
    /\ PublishAttempted

\* C14: lastPublishedBrightness changes only in the step of a cycle whose
\* publish succeeded, and then becomes exactly the published brightness;
\* every other step leaves it unchanged.
C14_LastPublishedFrame ==
    [][/\ lastPublishedBrightness' # lastPublishedBrightness
          => /\ monPc = "gate"
             /\ cycle'.publish = "ok"
             /\ lastPublishedBrightness' = cycle'.brightness
             /\ backlightField' = <<cycle'.brightness>>
       /\ (monPc = "gate" /\ cycle'.publish = "ok")
          => lastPublishedBrightness' = cycle'.brightness]_vars

C14_Witness ==
    /\ cycle.publish = "ok"
    /\ cycle.lastBefore # 0 - 1
    /\ cycle.lastBefore # cycle.brightness
    /\ lastPublishedBrightness = cycle.brightness

\* C15: publish failure is degraded. When the gate passes but the publish
\* fails, the cycle returns nil, lastPublishedBrightness is unchanged, and
\* the level change and the hardware write of that cycle are kept.
C15_PublishFailureDegraded ==
    cycle.publish = "err"
        => /\ cycle.result = "nil"
           /\ lastPublishedBrightness = cycle.lastBefore
           /\ currentLevel = NextLevel(cycle.levelBefore, states[cycle.levelBefore], cycle.lux)
           /\ cycle.hw = "ok" => file = Readable(states[currentLevel].Brightness)

C15_Witness ==
    /\ cycle.publish = "err"
    /\ cycle.hw = "ok"
    /\ currentLevel # cycle.levelBefore
    /\ cycle.lastBefore # 0 - 1

\* C16: readback failure is degraded. When the readback of the hardware
\* brightness fails, no publish is attempted, lastPublishedBrightness is
\* unchanged and the cycle returns nil.
C16_ReadbackFailureDegraded ==
    cycle.readback = "err"
        => /\ cycle.publish = "none"
           /\ ~cycle.hset /\ ~cycle.notify
           /\ lastPublishedBrightness = cycle.lastBefore
           /\ cycle.result = "nil"

C16_Witness ==
    /\ cycle.readback = "err"
    /\ cycle.kind = "periodic"
    /\ cycle.result = "nil"

\* C17: illuminance read failure aborts the cycle. When the read fails
\* (store unavailable, timeout, unparseable field) the cycle returns an
\* error, currentLevel is unchanged, and no hardware write, readback or
\* publish happens in that cycle.
C17_IlluminanceFailureAborts ==
    cycle.reply \in {"error", "garbage"}
        => /\ cycle.result = "error"
           /\ currentLevel = cycle.levelBefore
           /\ cycle.hw = "none"
           /\ cycle.readback = "none"
           /\ cycle.publish = "none"
           /\ lastPublishedBrightness = cycle.lastBefore

C17_Witness ==
    /\ cycle.reply = "garbage"
    /\ cycle.kind = "periodic"
    /\ cycle.result = "error"
    /\ currentLevel # LevelMid

\* C18: hardware write failure is cycle-fatal. When the write triggered by
\* a level change fails, the cycle returns an error, performs neither the
\* readback nor a publish, and lastPublishedBrightness is unchanged.
C18_WriteFailureFatal ==
    cycle.hw \in {"open_failed", "write_failed"}
        => /\ cycle.result = "error"
           /\ cycle.readback = "none"
           /\ cycle.publish = "none"
           /\ lastPublishedBrightness = cycle.lastBefore

C18_Witness ==
    /\ cycle.hw = "write_failed"
    /\ currentLevel # cycle.levelBefore
    /\ cycle.result = "error"
    /\ cycle.lastBefore # 0 - 1

\* C19: steady-state errors never stop the loop. The loop leaves only on
\* cancellation, and from its select, as long as no cancellation arrives
\* and the ticker keeps firing, a further cycle is eventually started.
C19_LoopKeepsRunning ==
    /\ [](monPc = "exited" => cancelled)
    /\ (monPc = "select" /\ ~cancelled) ~> (monPc = "read" \/ cancelled)

C19_Witness ==
    /\ monPc = "read"
    /\ cycle.kind = "periodic"
    /\ lastPublishedBrightness # 0 - 1
    /\ file = Unreadable
    /\ ~cancelled

\* C20: the startup ping failure is fatal. When Ping fails, Run returns
\* the error, the loop is never entered, and no illuminance read, hardware
\* write or publish ever happens.
C20_PingFailureFatal ==
    runPc = "failed"
        => /\ monPc = "none"
           /\ cycle = NoCycle
           /\ currentLevel = LevelMid
           /\ file \in ServiceFiles
           /\ backlightField = <<>>
           /\ lastPublishedBrightness = 0 - 1

C20_Witness ==
    /\ runPc = "failed"
    /\ ~cancelled
    /\ processExited

InCycle == monPc \in {"read", "adjust", "readback", "gate"}

\* C21: loop driver. After a successful ping the initial cycle begins
\* without a tick being received; every later cycle begins by receiving
\* exactly one tick from the ticker.
C21_LoopDriver ==
    [][/\ (monPc' = "initial" /\ monPc # "initial")
          => (runPc = "ping" /\ runPc' = "waiting")
       /\ (monPc' = "read" /\ monPc # "read")
          => \/ /\ monPc = "initial"
                /\ cycle'.kind = "initial"
                /\ ~tickPending /\ ~tickPending'
             \/ /\ monPc = "select"
                /\ cycle'.kind = "periodic"
                /\ tickPending /\ ~tickPending']_vars

C21_Witness ==
    /\ monPc = "read"
    /\ cycle.kind = "periodic"
    /\ ~tickPending
    /\ ~cancelled

\* C22: cancellation aborts an in-flight cycle. Once the context is
\* cancelled, no remaining step of a partially executed cycle (level
\* update, hardware write, readback, publish, update of
\* lastPublishedBrightness) is executed.
C22_CancelAbortsCycle ==
    [][(cancelled /\ monPc \in {"adjust", "readback", "gate"})
          => /\ UNCHANGED <<currentLevel, file, lastPublishedBrightness, backlightField>>
             /\ cycle'.hw = cycle.hw
             /\ cycle'.readback = cycle.readback
             /\ cycle'.publish = cycle.publish]_vars

\* C23: no overlapping cycles. A cycle begins only when none is in
\* progress; a tick that arrives during a cycle is only kept for the next
\* select and touches neither the cycle nor currentLevel nor
\* lastPublishedBrightness.
C23_NoOverlap ==
    [][/\ InCycle <=> cycle.result = "running"
       /\ InCycle
          => /\ cycle'.kind = cycle.kind
             /\ cycle'.levelBefore = cycle.levelBefore
             /\ cycle'.lastBefore = cycle.lastBefore
       /\ (InCycle /\ tickPending' # tickPending)
          => /\ tickPending'
             /\ UNCHANGED <<monPc, cycle, currentLevel, file,
                            lastPublishedBrightness, backlightField>>]_vars

C23_Witness ==
    /\ monPc = "readback"
    /\ cycle.kind = "periodic"
    /\ tickPending
    /\ ~cancelled

WriteFailures == {"open_failed", "write_failed"}

\* C24: an absent illuminance field is not an error. GetIlluminanceValue
\* returns 0 without error and the cycle goes on through AdjustBacklight
\* with illuminance 0, so the level steps down.
C24_AbsentFieldIsZero ==
    cycle.reply = "nil"
        => /\ cycle.lux = 0
           /\ cycle.hw = "none" => (monPc = "adjust" /\ cycle.result = "running")
           /\ cycle.hw # "none"
              => currentLevel = IF cycle.levelBefore = LevelVeryLow THEN LevelVeryLow
                                ELSE cycle.levelBefore - 1
           /\ cycle.result = "error" => cycle.hw \in WriteFailures

C24_Witness ==
    /\ cycle.reply = "nil"
    /\ cycle.levelBefore = LevelMid
    /\ currentLevel = LevelLow
    /\ cycle.hw = "ok"
    /\ cycle.result = "nil"

(***************************************************************************)
(* Properties of the illuminance conversion                                *)
(***************************************************************************)
\* v is the integer part of the field value, the fraction dropped toward
\* zero; no int is the integer part of a number beyond the int
IsIntegerPart(v, field) ==
    /\ field.kind = "number"
    /\ IF field.tenths >= 0
       THEN v * 10 <= field.tenths /\ field.tenths < v * 10 + 10
       ELSE v * 10 - 10 < field.tenths /\ field.tenths <= v * 10

\* C25: the illuminance conversion truncates toward zero. For every
\* numeric field value x, GetIlluminanceValue returns without error the
\* integer part of x, for positive and negative x alike.
C25_TruncatesTowardZero ==
    classified # <<>>
        => /\ ~classified[1].err
           /\ IsIntegerPart(classified[1].value, probe)

\* the conversion of the values whose integer part fits the int
C25_InRange ==
    (classified # <<>> /\ probe.kind = "number")
        => /\ ~classified[1].err
           /\ IsIntegerPart(classified[1].value, probe)
           /\ probe.tenths = 427 => classified[1].value = 42
           /\ probe.tenths = 0 - 105 => classified[1].value = 0 - 10
           /\ probe.tenths = 1000 => classified[1].value = 100

(***************************************************************************)
(* Properties of the store and of the order of the steps                   *)
(***************************************************************************)
\* C26: publish is all-or-nothing. SetBacklightValue either writes the
\* backlight field and emits the notification, or does neither; a call
\* that reports failure has left the field unchanged.
C26_PublishAllOrNothing ==
    [][(monPc = "gate" /\ cycle'.publish \in {"ok", "err"})
          => /\ cycle'.hset <=> cycle'.notify
             /\ cycle'.publish = "err" => backlightField' = backlightField]_vars

\* C27 as stated: after every cycle that ends with a successful readback
\* and without a publish failure, the backlight field of the store equals
\* the brightness read back in that cycle.
C27_Original ==
    (CycleEnded /\ cycle.readback = "ok" /\ cycle.publish # "err")
        => backlightField = <<cycle.brightness>>

\* C27: after a cycle whose publish succeeded the backlight field equals
\* the brightness read back in that cycle; a cycle whose gate skipped the
\* publish read back a brightness less than HysteresisThreshold away from
\* lastPublishedBrightness.
C27_FieldAfterPublish ==
    /\ cycle.publish = "ok"
       => /\ backlightField = <<cycle.brightness>>
          /\ lastPublishedBrightness = cycle.brightness
    /\ cycle.publish = "skipped"
       => /\ Abs(cycle.brightness - cycle.lastBefore) < hysteresisThreshold
          /\ lastPublishedBrightness = cycle.lastBefore

C27_Witness ==
    /\ cycle.publish = "skipped"
    /\ cycle.readback = "ok"
    /\ backlightField = <<lastPublishedBrightness>>
    /\ backlightField # <<cycle.brightness>>

\* C28: retry via the next tick. A hardware write that failed during a
\* level change is attempted again by a later cycle that reads the same
\* illuminance.
C28_FailedWriteRetried ==
    [][(monPc = "adjust" /\ err /\ cycle.lux = illuminance)
          => cycle'.hw # "nowrite"]_vars

\* C29: the transition is deterministic. The new level and the brightness
\* to write are functions of (currentLevel, illuminance) and the table
\* alone, whatever the hardware brightness, the earlier samples and the
\* number of earlier calls.
C29_Deterministic ==
    Called
        => /\ currentLevel = NextLevel(previousLevel, states[previousLevel], illuminance)
           /\ written = IF currentLevel # previousLevel
                        THEN <<states[currentLevel].Brightness>> ELSE <<>>

C29_Witness ==
    /\ calls >= 3
    /\ transitions >= 2
    /\ currentLevel = LevelMid
    /\ previousLevel = LevelLow
    /\ file = Readable(MidBrightness)
    /\ written = <<MidBrightness>>

StepRank(step) ==
    CASE step = "read" -> 1
      [] step = "transition" -> 2
      [] step = "write" -> 3
      [] step = "readback" -> 4
      [] step = "gate" -> 5
      [] step = "publish" -> 6

\* C30: step order inside one cycle. The illuminance read precedes the
\* transition, the hardware write the readback, the readback the gate and
\* the publish; the value published is the value read back from the
\* hardware in that cycle.
C30_StepOrder ==
    /\ \A i, j \in DOMAIN cycle.steps :
          i < j => StepRank(cycle.steps[i]) < StepRank(cycle.steps[j])
    /\ \A i \in DOMAIN cycle.steps :
          (i > 1 /\ cycle.steps[i] # "write" /\ cycle.steps[i] # "publish")
              => StepRank(cycle.steps[i - 1]) \in {StepRank(cycle.steps[i]) - 1,
                                                  StepRank(cycle.steps[i]) - 2}
    /\ cycle.steps # <<>> => cycle.steps[1] = "read"
    /\ cycle.readback = "ok" => cycle.brightness = file.value
    /\ cycle.hset => backlightField = <<cycle.brightness>>

C30_Witness ==
    /\ cycle.steps = <<"read", "transition", "readback", "gate", "publish">>
    /\ cycle.publish = "ok"
    /\ cycle.brightness # states[currentLevel].Brightness
    /\ backlightField = <<cycle.brightness>>

(***************************************************************************)
(* Further properties of AdjustBacklight                                   *)
(***************************************************************************)
\* C31: the level is updated before the hardware write and is not rolled
\* back. When the write of a level change fails, currentLevel is the new
\* level at the end of the cycle, and a following cycle whose sample lies
\* in the new level's dead zone makes no transition and no hardware write.
C31_LevelKeptOnWriteFailure ==
    [][/\ cycle.hw \in WriteFailures
          => /\ currentLevel # cycle.levelBefore
             /\ currentLevel = NextLevel(cycle.levelBefore, states[cycle.levelBefore], cycle.lux)
       /\ (monPc = "adjust" /\ monPc' # "adjust" /\ err
             /\ InDeadZone(currentLevel, cycle.lux))
          => /\ currentLevel' = currentLevel
             /\ cycle'.hw = "nowrite"
             /\ file' = file]_vars

C31_Witness ==
    /\ cycle.hw = "nowrite"
    /\ cycle.lux = 25
    /\ currentLevel = LevelMid
    /\ file = Readable(LowBrightness)

\* a sample above thresholdUp and below thresholdDown of the level left
BothTriggered ==
    /\ previousLevel \in {LevelLow, LevelMid, LevelHigh}
    /\ states[previousLevel].ThresholdUp > 0
    /\ illuminance > states[previousLevel].ThresholdUp
    /\ illuminance < states[previousLevel].ThresholdDown

\* C32: up has priority over down. For a middle level whose thresholdDown
\* lies above its thresholdUp, a sample above thresholdUp and below
\* thresholdDown moves the level up by one, never down.
C32_UpBeforeDown ==
    (Called /\ BothTriggered) => currentLevel = previousLevel + 1

C32_Witness ==
    /\ Called
    /\ BothTriggered
    /\ states = SkewedStates
    /\ previousLevel = LevelMid
    /\ illuminance = 25
    /\ currentLevel = LevelHigh

\* C33: a threshold is absent exactly when it is zero. Every nonzero
\* thresholdUp, a negative one included, moves the level up for a sample
\* strictly above it, and every nonzero thresholdDown moves it down for a
\* sample strictly below it (when the up branch does not apply).
C33_NonzeroIsActive ==
    Called
        => /\ (/\ previousLevel # LevelVeryHigh
               /\ states[previousLevel].ThresholdUp # 0
               /\ illuminance > states[previousLevel].ThresholdUp)
              => currentLevel = previousLevel + 1
           /\ (/\ previousLevel # LevelVeryLow
               /\ states[previousLevel].ThresholdDown # 0
               /\ illuminance < states[previousLevel].ThresholdDown
               /\ ~(/\ previousLevel # LevelVeryHigh
                    /\ states[previousLevel].ThresholdUp # 0
                    /\ illuminance > states[previousLevel].ThresholdUp))
              => currentLevel = previousLevel - 1

\* C34: floor and ceiling. currentLevel is always one of the five levels;
\* from VeryLow no sample moves the level down and from VeryHigh no sample
\* moves it up.
C34_FloorAndCeiling ==
    /\ currentLevel \in Levels
    /\ (Called /\ previousLevel = LevelVeryLow)
       => currentLevel \in {LevelVeryLow, LevelLow}
    /\ (Called /\ previousLevel = LevelVeryHigh)
       => currentLevel \in {LevelVeryHigh, LevelHigh}

C34_Witness ==
    /\ Called
    /\ previousLevel = LevelVeryLow
    /\ illuminance < 0
    /\ currentLevel = LevelVeryLow
    /\ calls >= 2

(***************************************************************************)
(* Properties of cancellation and of the published value                   *)
(***************************************************************************)
\* C35: no cycle starts after cancellation. Once the context is cancelled
\* and the loop is at its select, it returns without beginning another
\* cycle, also when a tick is pending.
C35_NoCycleAfterCancel ==
    [][(cancelled /\ monPc = "select") => monPc' # "read"]_vars

\* C37: bounded staleness of the published value. With a positive
\* HysteresisThreshold, at the end of every cycle whose readback succeeded
\* and whose publish, if attempted, succeeded, the brightness read back is
\* less than HysteresisThreshold away from lastPublishedBrightness.
C37_BoundedStaleness ==
    (/\ hysteresisThreshold > 0
     /\ CycleEnded
     /\ cycle.readback = "ok"
     /\ cycle.publish \in {"ok", "skipped"})
        => Abs(cycle.brightness - lastPublishedBrightness) < hysteresisThreshold

C37_Witness ==
    /\ CycleEnded
    /\ hysteresisThreshold = HysteresisThreshold
    /\ cycle.lastBefore = VeryLowBrightness
    /\ cycle.brightness = HighBrightness
    /\ cycle.publish = "ok"
    /\ lastPublishedBrightness = HighBrightness

\* C39: no use of the store connection after close. Once Run has returned
\* and closed the connection, the loop issues neither an illuminance read
\* nor a publish.
C39_NoUseAfterClose ==
    [][Closed
          => /\ ~(monPc = "read" /\ monPc' # "read")
             /\ ~(monPc = "gate" /\ cycle'.publish \in {"ok", "err"})]_vars

(***************************************************************************)
(* Termination on cancellation                                             *)
(***************************************************************************)
TerminationInit ==
    /\ ManagerInit(DefaultStates, Readable(0))
    /\ ProbeIdle
    /\ ServiceNew(HysteresisThreshold)

\* the goroutines are scheduled, and the select, which picks at random
\* among its ready cases, does not pass over ctx.Done() forever
TerminationSpec ==
    /\ TerminationInit
    /\ [][ServiceNext]_vars
    /\ WF_vars(MonitorStep)
    /\ SF_vars(SelectDone)
    /\ WF_vars(RunDone)

LoopTerminated == monPc = "exited" \/ processExited

\* C36: termination on cancellation. Once the context of the running
\* service is cancelled, Run returns nil and the polling loop eventually
\* terminates; a terminated loop performs no further cycle.
C36_TerminatesOnCancel ==
    /\ [](runPc = "returned" => cancelled)
    /\ (cancelled /\ runPc = "waiting") ~> (runPc = "returned" /\ LoopTerminated)
    /\ [][LoopTerminated
            => UNCHANGED <<monPc, cycle, currentLevel, file,
                           lastPublishedBrightness, backlightField>>]_vars

C36_Witness ==
    /\ cancelled
    /\ runPc = "returned"
    /\ monPc = "exited"
    /\ ~processExited
    /\ cycle.kind = "periodic"

(***************************************************************************)
(* AdjustBacklight fed with one constant sample                            *)
(***************************************************************************)
ConstantInit ==
    /\ \E content \in InitialFiles : ManagerInit(DefaultStates, content)
    /\ probe \in Samples
    /\ classified = <<>>
    /\ ServiceNew(HysteresisThreshold)

ConstantNext ==
    \/ \E level \in Levels : SetCurrentLevel(level)
    \/ \E outcome \in WriteOutcomes : AdjustBacklight(probe, outcome)

ConstantSpec == ConstantInit /\ [][ConstantNext]_vars

AtFixedPoint ==
    /\ NextLevel(currentLevel, states[currentLevel], probe) = currentLevel
    /\ BrightnessToSet(currentLevel,
                       NextLevel(currentLevel, states[currentLevel], probe),
                       states[currentLevel]) = <<>>

\* C38: stabilisation under a constant input. With the default thresholds,
\* from every starting level and for every constant sample, the level moves
\* in one direction only, has stopped changing after at most 4 calls, and
\* no hardware write happens afterwards.
C38_Stabilises ==
    states = DefaultStates
        => /\ Abs(currentLevel - startLevel) = transitions
           /\ calls >= 4 => AtFixedPoint
           /\ calls > 4 => (currentLevel = previousLevel /\ written = <<>>)
           /\ (Called /\ currentLevel = previousLevel) => AtFixedPoint

C38_Witness ==
    /\ states = DefaultStates
    /\ startLevel = LevelVeryHigh
    /\ probe = 0
    /\ calls = 4
    /\ transitions = 4
    /\ currentLevel = LevelVeryLow

(***************************************************************************)
(* The control loop while something else rewrites the control path         *)
(***************************************************************************)
\* values another writer leaves in the control path; GetCurrentBrightness
\* accepts every decimal integer, -1 included
DriftValues == {0 - 1}

\* the control path is rewritten from outside the service
HardwareDrift(value) ==
    /\ Alive
    /\ file # Readable(value)
    /\ file' = Readable(value)
    /\ UNCHANGED <<states, currentLevel, illuminance, previousLevel, written,
                   err, origin, startLevel, calls, transitions, hwWrites,
                   increasing, inZone, allNonPositive, allLow, probeVars,
                   serviceVars>>

DriftInit ==
    /\ ManagerInit(DefaultStates, Readable(0))
    /\ ProbeIdle
    /\ ServiceNew(HysteresisThreshold)

DriftNext ==
    \/ ServiceNext
    \/ \E value \in DriftValues : HardwareDrift(value)

DriftSpec == DriftInit /\ [][DriftNext]_vars

\* C40 as stated: after a successful publish lastPublishedBrightness is
\* not -1, for every integer the readback can return.
C40_Original ==
    cycle.publish = "ok" => lastPublishedBrightness # 0 - 1

\* C40: lastPublishedBrightness becomes -1 again only by a successful
\* publish of a readback of -1; as long as it is not -1, every publish is
\* caused by a delta >= HysteresisThreshold.
C40_SentinelOnlyByMinusOne ==
    [][/\ (lastPublishedBrightness # 0 - 1 /\ lastPublishedBrightness' = 0 - 1)
          => /\ monPc = "gate"
             /\ cycle'.publish = "ok"
             /\ cycle'.brightness = 0 - 1
       /\ (monPc = "gate" /\ cycle'.publish = "ok" /\ cycle'.brightness # 0 - 1)
          => lastPublishedBrightness' # 0 - 1
       /\ (/\ monPc = "gate"
           /\ cycle'.publish \in {"ok", "err"}
           /\ lastPublishedBrightness # 0 - 1)
          => Abs(cycle'.brightness - lastPublishedBrightness) >= hysteresisThreshold]_vars

C40_Witness ==
    /\ cycle.publish = "ok"
    /\ cycle.lastBefore = LowBrightness
    /\ cycle.brightness = 0 - 1
    /\ lastPublishedBrightness = 0 - 1

====
